---- MODULE Spec2Model ----
(***************************************************************************)
(* Mention utilities of the channels webapp (utils/mention_utils):         *)
(* mention scanning, the cursor policy applied to key events, and the      *)
(* mention-expansion guard.                                                *)
(*                                                                         *)
(* A buffer is a sequence of characters; offsets are 0-based as in the     *)
(* source, so the character at offset i of s is s[i + 1].                  *)
(***************************************************************************)
EXTENDS Integers, Sequences, FiniteSets, TLC

VARIABLES
    value,        \* textbox.value (and the `value` the host passes along)
    cursor,       \* textbox.selectionStart
    transparent,  \* textbox has class suggestion-box-input-transparent
    timers,       \* pending setTimeout(..., 0) callbacks, FIFO: a caret timeout
                  \* with its position, or a re-check with the text it captured
    last,         \* the last key event handled and what it saw
    out,          \* the last call of a pure function and its result
    regexLastIndex  \* MENTION_REGEX.lastIndex, the search cursor of the one pattern object

vars == <<value, cursor, transparent, timers, last, out, regexLastIndex>>

----------------------------------------------------------------------------
(* Bounds *)

MaxLen == 4          \* longest buffer a key-event run starts from
MaxScanLen == 5      \* longest buffer handed to getMentionRanges
MaxPrevLen == 3      \* longest previous buffer of detectAndFixMentionExpansion
MaxInsert == 2       \* longest insertion between previous and current buffer
MaxTimers == 1       \* pending timeouts kept at once
MaxPreventLen == 4   \* longest buffer handed to preventMentionExpansion
MaxCallLen == 3      \* longest buffer of a call with an unchecked cursor
MaxRegexLen == 3     \* longest buffer of the repeated scans
MaxMouseLen == 3     \* longest buffer of the runs with mouse clicks
MaxPadLen == 1       \* longest text on each side of a long mention
MaxOverlayLen == 3   \* longest buffer handed to the overlay before a fix
MaxSafeLen == 4      \* longest buffer handed to getSafeCursorPosition

----------------------------------------------------------------------------
(* Characters.  One representative per class the code distinguishes:       *)
(*   "@"            the mention marker                                      *)
(*   "a"            [a-z0-9_], in the mention class and a \w character      *)
(*   "."            '.' and '-', in the mention class but not \w            *)
(*   " "            whitespace                                              *)
(*   "!"            any other character                                     *)
(*   "ZWSP", "ZWNJ" U+200B and U+200C                                       *)

ZWSP == "ZWSP"
ZWNJ == "ZWNJ"

Chars == {"@", "a", ".", " ", "!", ZWSP, ZWNJ}

KeyChars == {"@", "a", ".", " ", ZWSP}

\* The characters of the buffers in the runs with mouse clicks
MouseChars == {"@", "a", " "}

FixChars == {"@", "a", ".", " ", ZWSP}

IsZeroWidth(c) == c \in {ZWSP, ZWNJ}

IsWordChar(c) == c = "a"

InMentionClass(c) == c \in {"a", "."}

IsWhitespace(c) == c = " "

\* Values that are not strings (null, undefined, anything else), kept apart
\* from every buffer
NonStrings == {<<"null">>, <<"undefined">>, <<"object">>}

\* !text || typeof text !== 'string'
notText(text) == text = <<>> \/ text \in NonStrings

RECURSIVE SeqsUpTo(_, _)
SeqsUpTo(S, n) ==
    IF n = 0 THEN {<<>>}
    ELSE LET shorter == SeqsUpTo(S, n - 1)
         IN  shorter \cup {Append(s, c) : s \in {t \in shorter : Len(t) = n - 1}, c \in S}

Min(a, b) == IF a < b THEN a ELSE b
Max(a, b) == IF a > b THEN a ELSE b

\* String.prototype.substring(from, to) and substring(from)
Substring(s, from, to) ==
    LET f == Max(0, Min(from, Len(s)))
        t == Max(0, Min(to, Len(s)))
    IN  SubSeq(s, Min(f, t) + 1, Max(f, t))

SubstringFrom(s, from) == Substring(s, from, Len(s))

\* String.prototype.startsWith
StartsWith(s, p) == Len(p) <= Len(s) /\ SubSeq(s, 1, Len(p)) = p

----------------------------------------------------------------------------
(* MENTION_REGEX = /@([a-z0-9.\-_]+)\b/gi                                   *)

\* text.replace(/[\u200B\u200C]/g, '')
cleanText(text) == SelectSeq(text, LAMBDA c : ~IsZeroWidth(c))

\* \b at offset p of s
WordBoundary(s, p) ==
    LET before == p > 0 /\ IsWordChar(s[p])
        after == p < Len(s) /\ IsWordChar(s[p + 1])
    IN  before # after

\* End offset of the greedy run [a-z0-9.\-_]* starting at offset i
RECURSIVE RunEnd(_, _)
RunEnd(s, i) ==
    IF i < Len(s) /\ InMentionClass(s[i + 1]) THEN RunEnd(s, i + 1) ELSE i

\* MatchAt for the regex without its trailing \b
MatchAt_noBoundary(s, i) ==
    IF i < Len(s) /\ s[i + 1] = "@" /\ RunEnd(s, i + 1) >= i + 2
    THEN RunEnd(s, i + 1)
    ELSE -1

\* The regex tried at offset i: the end offset of the match, or -1.
\* The + is greedy and gives characters back until \b holds.
MatchAt(s, i) ==
    IF i < Len(s) /\ s[i + 1] = "@"
    THEN LET e == RunEnd(s, i + 1)
             ends == {p \in (i + 2)..e : WordBoundary(s, p)}
         IN  IF ends = {} THEN -1
             ELSE CHOOSE p \in ends : \A q \in ends : q <= p
    ELSE -1

\* MENTION_REGEX.exec(s) with the given lastIndex: the offset of the first
\* match at or after lastIndex, or -1 (null).
RECURSIVE RegexExec(_, _)
RegexExec(s, lastIndex) ==
    IF lastIndex > Len(s) THEN -1
    ELSE IF MatchAt(s, lastIndex) # -1 THEN lastIndex
    ELSE RegexExec(s, lastIndex + 1)

RECURSIVE mapLoop(_, _, _, _)
mapLoop(originalText, cleanPosition, originalPos, cleanPos) ==
    IF cleanPos < cleanPosition /\ originalPos < Len(originalText)
    THEN IF IsZeroWidth(originalText[originalPos + 1])
         THEN mapLoop(originalText, cleanPosition, originalPos + 1, cleanPos)
         ELSE mapLoop(originalText, cleanPosition, originalPos + 1, cleanPos + 1)
    ELSE originalPos

\* A mapping that takes the clean position for the original one
mapCleanToOriginalPosition_identity(originalText, cleanPosition) == cleanPosition

mapCleanToOriginalPosition(originalText, cleanPosition) ==
    mapLoop(originalText, cleanPosition, 0, 0)

\* makeRange that keeps the start in clean-text coordinates
makeRange_unmappedStart(text, clean, index, matchEnd) ==
    [start |-> index,
     end |-> mapCleanToOriginalPosition(text, matchEnd),
     text |-> SubSeq(clean, index + 1, matchEnd)]

\* The range pushed for the match clean[index, matchEnd)
makeRange(text, clean, index, matchEnd) ==
    [start |-> mapCleanToOriginalPosition(text, index),
     end |-> mapCleanToOriginalPosition(text, matchEnd),
     text |-> SubSeq(clean, index + 1, matchEnd)]

\* The while loop of getMentionRanges, entered with the regex's lastIndex
RECURSIVE ScanFrom(_, _, _)
ScanFrom(text, clean, lastIndex) ==
    LET index == RegexExec(clean, lastIndex)
    IN  IF index = -1 THEN <<>>
        ELSE LET matchEnd == MatchAt(clean, index)
             IN  <<makeRange(text, clean, index, matchEnd)>> \o ScanFrom(text, clean, matchEnd)

\* MENTION_REGEX.lastIndex = 0 before the loop
resetLastIndex == 0

getMentionRanges(text) ==
    IF notText(text) THEN <<>>
    ELSE ScanFrom(text, cleanText(text), resetLastIndex)

\* An exec whose failure leaves lastIndex where the search began
execLastIndex_keptOnFailure(clean, from) ==
    LET index == RegexExec(clean, from)
    IN  IF index = -1 THEN from ELSE MatchAt(clean, index)

\* MENTION_REGEX.lastIndex after exec(clean) entered with lastIndex `from`:
\* the end of the match, and 0 when nothing is found
execLastIndex(clean, from) ==
    LET index == RegexExec(clean, from)
    IN  IF index = -1 THEN 0 ELSE MatchAt(clean, index)

\* MENTION_REGEX.lastIndex when the while loop ends
RECURSIVE lastIndexAfterLoop(_, _)
lastIndexAfterLoop(clean, from) ==
    IF RegexExec(clean, from) = -1 THEN execLastIndex(clean, from)
    ELSE lastIndexAfterLoop(clean, execLastIndex(clean, from))

\* MENTION_REGEX.lastIndex after getMentionRanges(text)
lastIndexAfterScan(text) ==
    IF notText(text) THEN regexLastIndex
    ELSE lastIndexAfterLoop(cleanText(text), resetLastIndex)

----------------------------------------------------------------------------
(* Cursor policy *)

\* An optional field: None is undefined, Some(x) a present value
None == <<>>
Some(x) == <<x>>

RECURSIVE cursorInfoLoop(_, _, _)
cursorInfoLoop(ranges, i, cursorPosition) ==
    IF i > Len(ranges) THEN [inArea |-> FALSE, range |-> None, position |-> None]
    ELSE IF cursorPosition >= ranges[i].start /\ cursorPosition < ranges[i].end
    THEN [inArea |-> TRUE, range |-> Some(ranges[i]), position |-> Some(cursorPosition)]
    ELSE cursorInfoLoop(ranges, i + 1, cursorPosition)

getCursorPositionInfo(text, cursorPosition) ==
    IF notText(text) \/ cursorPosition < 0
    THEN [inArea |-> FALSE, range |-> None, position |-> None]
    ELSE cursorInfoLoop(getMentionRanges(text), 1, cursorPosition)

RECURSIVE safeCursorLoop(_, _, _)
safeCursorLoop(ranges, i, targetPosition) ==
    IF i > Len(ranges) THEN targetPosition
    ELSE IF targetPosition >= ranges[i].start /\ targetPosition < ranges[i].end
    THEN ranges[i].end
    ELSE safeCursorLoop(ranges, i + 1, targetPosition)

getSafeCursorPosition(text, targetPosition) ==
    IF notText(text) \/ targetPosition < 0 THEN 0
    ELSE Max(0, Min(safeCursorLoop(getMentionRanges(text), 1, targetPosition), Len(text)))

NoInvade == [willInvade |-> FALSE, safePosition |-> None]

\* The Home / Ctrl+Left / Cmd+Left loop
RECURSIVE homeLoop(_, _)
homeLoop(ranges, i) ==
    IF i > Len(ranges) THEN NoInvade
    ELSE IF 0 < ranges[i].end
    THEN [willInvade |-> TRUE, safePosition |-> Some(ranges[i].end)]
    ELSE homeLoop(ranges, i + 1)

\* ArrowRight anywhere to the left of a mention
entersFromLeft_anyDistance(range, currentPosition, nextPosition) ==
    currentPosition < range.start

\* ArrowRight entering a mention from the left
entersFromLeft(range, currentPosition, nextPosition) ==
    currentPosition < range.start /\ nextPosition >= range.start

\* ArrowLeft arriving at a mention's end from its right
arrivesAtEnd(range, currentPosition, nextPosition) ==
    currentPosition > range.end /\ nextPosition = range.end

\* leftWithinMention with the mention's end left out
leftWithinMention_exclusiveEnd(range, currentPosition, nextPosition) ==
    currentPosition < range.end /\ currentPosition > range.start
        /\ nextPosition >= range.start

\* ArrowLeft within a mention or at its end
leftWithinMention(range, currentPosition, nextPosition) ==
    currentPosition <= range.end /\ currentPosition > range.start
        /\ nextPosition >= range.start

\* The ArrowLeft / ArrowRight loop
RECURSIVE arrowLoop(_, _, _, _)
arrowLoop(ranges, i, currentPosition, key) ==
    LET nextPosition == IF key = "ArrowLeft" THEN currentPosition - 1 ELSE currentPosition + 1
        range == ranges[i]
    IN  IF i > Len(ranges) THEN NoInvade
        ELSE IF key = "ArrowRight" /\ entersFromLeft(range, currentPosition, nextPosition)
        THEN [willInvade |-> TRUE, safePosition |-> Some(range.end)]
        ELSE IF key = "ArrowLeft" /\ arrivesAtEnd(range, currentPosition, nextPosition)
        THEN NoInvade
        ELSE IF key = "ArrowLeft" /\ leftWithinMention(range, currentPosition, nextPosition)
        THEN [willInvade |-> TRUE, safePosition |-> Some(range.start)]
        ELSE IF key = "ArrowLeft" /\ currentPosition = range.start
        THEN NoInvade
        ELSE arrowLoop(ranges, i + 1, currentPosition, key)

willInvadeMentionArea(text, currentPosition, key, ctrlKey, metaKey) ==
    LET mentionRanges == getMentionRanges(text)
    IN  IF notText(text) \/ currentPosition < 0 THEN NoInvade
        ELSE IF Len(mentionRanges) = 0 THEN NoInvade
        ELSE IF key = "Home" \/ (key = "ArrowLeft" /\ (ctrlKey \/ metaKey))
        THEN homeLoop(mentionRanges, 1)
        ELSE IF key \in {"ArrowLeft", "ArrowRight"}
        THEN arrowLoop(mentionRanges, 1, currentPosition, key)
        ELSE NoInvade

NoDeletion == [shouldDelete |-> FALSE, newPosition |-> None, newText |-> None]

\* removeRange that also drops the character after the mention
removeRange_offByOne(text, range) ==
    Substring(text, 0, range.start) \o SubstringFrom(text, range.end + 1)

\* text.substring(0, range.start) + text.substring(range.end)
removeRange(text, range) ==
    Substring(text, 0, range.start) \o SubstringFrom(text, range.end)

\* deleteWithinMention that leaves the key to the host
deleteWithinMention_notHandled(range) ==
    [shouldDelete |-> FALSE, newPosition |-> None, newText |-> None]

\* Delete within a mention: move to the mention's end
deleteWithinMention(range) ==
    [shouldDelete |-> FALSE, newPosition |-> Some(range.end), newText |-> None]

\* backspaceWithinMention that moves to the mention's end
backspaceWithinMention_toEnd(range) ==
    [shouldDelete |-> FALSE, newPosition |-> Some(range.end), newText |-> None]

\* Backspace within a mention: move to the mention's start
backspaceWithinMention(range) ==
    [shouldDelete |-> FALSE, newPosition |-> Some(range.start), newText |-> None]

\* deleteWholeMention that leaves the cursor at the mention's old end
deleteWholeMention_cursorAtEnd(text, range) ==
    [shouldDelete |-> TRUE, newPosition |-> Some(range.end),
     newText |-> Some(removeRange(text, range))]

\* deleteWholeMention that keeps the '@'
deleteWholeMention_keepsMarker(text, range) ==
    [shouldDelete |-> TRUE, newPosition |-> Some(range.start),
     newText |-> Some(Substring(text, 0, range.start + 1) \o SubstringFrom(text, range.end))]

\* Delete the entire mention, cursor at its start
deleteWholeMention(text, range) ==
    [shouldDelete |-> TRUE, newPosition |-> Some(range.start),
     newText |-> Some(removeRange(text, range))]

\* hasTextAfterSpace without the trim
hasTextAfterSpace_untrimmed(afterSpace) == Len(afterSpace) > 0

\* afterSpace.trim().length > 0
hasTextAfterSpace(afterSpace) ==
    \E k \in 1..Len(afterSpace) : ~IsWhitespace(afterSpace[k])

RECURSIVE deletionLoop(_, _, _, _, _)
deletionLoop(text, ranges, i, cursorPosition, key) ==
    LET range == ranges[i]
        afterSpace == SubstringFrom(text, range.end + 1)
    IN  IF i > Len(ranges) THEN NoDeletion
        ELSE IF key = "Backspace" /\ cursorPosition = range.end
        THEN deleteWholeMention(text, range)
        ELSE IF key = "Backspace" /\ cursorPosition > range.end
                /\ cursorPosition <= range.end + 1
                /\ range.end < Len(text) /\ text[range.end + 1] = " "
        THEN IF hasTextAfterSpace(afterSpace)
             THEN [shouldDelete |-> FALSE, newPosition |-> Some(cursorPosition), newText |-> None]
             ELSE [shouldDelete |-> TRUE, newPosition |-> Some(range.end),
                   newText |-> Some(Substring(text, 0, range.end) \o afterSpace)]
        ELSE IF key = "Backspace" /\ cursorPosition = range.start
        THEN deleteWholeMention(text, range)
        ELSE IF key = "Delete" /\ cursorPosition = range.start
        THEN deleteWholeMention(text, range)
        ELSE IF key = "Delete" /\ cursorPosition >= range.start /\ cursorPosition < range.end
        THEN deleteWithinMention(range)
        ELSE IF key = "Backspace" /\ cursorPosition > range.start /\ cursorPosition <= range.end
        THEN backspaceWithinMention(range)
        ELSE deletionLoop(text, ranges, i + 1, cursorPosition, key)

handleMentionDeletion(text, cursorPosition, key) ==
    IF notText(text) \/ cursorPosition < 0 THEN NoDeletion
    ELSE deletionLoop(text, getMentionRanges(text), 1, cursorPosition, key)

----------------------------------------------------------------------------
(* Key events *)

Keys == {"ArrowLeft", "ArrowRight", "Home", "End", "Backspace", "Delete"}

\* What the key does: text and cursor after it, whether the default was
\* prevented, and the position of the caret timeout updateTextboxValue
\* leaves behind for a transparent input.
KeyOutcome(v, c, p, t) == [value |-> v, cursor |-> c, prevented |-> p, timer |-> t]

\* The host's own handling of a key whose default was not prevented.  A
\* word or line jump (arrow with ctrl or meta) may stop at any position on
\* its side of the cursor.
HostDefault(text, pos, key, mod) ==
    CASE key = "ArrowLeft" /\ ~mod -> {KeyOutcome(text, Max(0, pos - 1), FALSE, None)}
      [] key = "ArrowLeft" /\ mod ->
            {KeyOutcome(text, p, FALSE, None) : p \in 0..Max(0, pos - 1)}
      [] key = "ArrowRight" /\ ~mod -> {KeyOutcome(text, Min(Len(text), pos + 1), FALSE, None)}
      [] key = "ArrowRight" /\ mod ->
            {KeyOutcome(text, p, FALSE, None) : p \in Min(Len(text), pos + 1)..Len(text)}
      [] key = "Home" -> {KeyOutcome(text, 0, FALSE, None)}
      [] key = "End" -> {KeyOutcome(text, Len(text), FALSE, None)}
      [] key = "Backspace" ->
            IF pos = 0 THEN {KeyOutcome(text, pos, FALSE, None)}
            ELSE {KeyOutcome(Substring(text, 0, pos - 1) \o SubstringFrom(text, pos),
                             pos - 1, FALSE, None)}
      [] key = "Delete" ->
            {KeyOutcome(Substring(text, 0, pos) \o SubstringFrom(text, pos + 1),
                        pos, FALSE, None)}

\* updateTextboxValue: sets the text and the cursor, and for a transparent
\* input schedules a timeout that sets the cursor again
updateTextboxValue(isTransparent, newValue, cursorPosition) ==
    KeyOutcome(newValue, cursorPosition, TRUE,
               IF isTransparent THEN Some(cursorPosition) ELSE None)

\* handleMentionKeyDown followed, when it returns false, by the host default
KeyDownOutcomes(text, currentPosition, isTransparent, key, mod) ==
    LET deletionResult == handleMentionDeletion(text, currentPosition, key)
        invasionResult == willInvadeMentionArea(text, currentPosition, key, mod, FALSE)
    IN  IF text = <<>> THEN HostDefault(text, currentPosition, key, mod)
        ELSE IF key \in {"Backspace", "Delete"}
                /\ deletionResult.shouldDelete /\ deletionResult.newText # None
        THEN {updateTextboxValue(isTransparent, deletionResult.newText[1],
                                 IF deletionResult.newPosition = None THEN 0
                                 ELSE deletionResult.newPosition[1])}
        ELSE IF key \in {"Backspace", "Delete"} /\ deletionResult.newPosition # None
        THEN {KeyOutcome(text, deletionResult.newPosition[1], TRUE, None)}
        ELSE IF key \in {"ArrowLeft", "ArrowRight", "Home", "End"}
                /\ invasionResult.willInvade /\ invasionResult.safePosition # None
        THEN {KeyOutcome(text, invasionResult.safePosition[1], TRUE, None)}
        ELSE HostDefault(text, currentPosition, key, mod)

NoCall == [fn |-> "none"]

NoKey(v, c) == [key |-> "none", mod |-> FALSE, value |-> v, pos |-> c, prevented |-> FALSE]

Init ==
    /\ value \in SeqsUpTo(KeyChars, MaxLen)
    /\ cursor \in 0..Len(value)
    /\ transparent \in BOOLEAN
    /\ timers = <<>>
    /\ regexLastIndex = 0
    /\ last = NoKey(value, cursor)
    /\ out = NoCall

handleMentionKeyDown(key, mod) ==
    \E o \in KeyDownOutcomes(value, cursor, transparent, key, mod) :
        /\ o.timer # None => Len(timers) < MaxTimers
        /\ value' = o.value
        /\ cursor' = o.cursor
        /\ timers' = IF o.timer = None THEN timers
                      ELSE Append(timers, [kind |-> "caret", pos |-> o.timer[1]])
        /\ last' = [key |-> key, mod |-> mod, value |-> value, pos |-> cursor,
                    prevented |-> o.prevented]
        /\ UNCHANGED <<transparent, out, regexLastIndex>>

\* The caret timeout of updateTextboxValue: textbox.setSelectionRange, which
\* clamps the position to the length of the text
RunCaretTimeout ==
    /\ timers # <<>>
    /\ Head(timers).kind = "caret"
    /\ cursor' = Min(Head(timers).pos, Len(value))
    /\ timers' = Tail(timers)
    /\ last' = [key |-> "timeout", mod |-> FALSE, value |-> value, pos |-> cursor,
                prevented |-> FALSE]
    /\ UNCHANGED <<value, transparent, out, regexLastIndex>>

\* A key press; ctrl or meta is modelled for the arrow keys
KeyDown ==
    \E key \in Keys, mod \in BOOLEAN :
        /\ mod => key \in {"ArrowLeft", "ArrowRight"}
        /\ handleMentionKeyDown(key, mod)

Next == KeyDown \/ RunCaretTimeout

Spec == Init /\ [][Next]_vars

----------------------------------------------------------------------------
(* Mention-expansion guard *)

MaxMentionLength == 50

\* U+200B U+200C U+200B
separators == <<ZWSP, ZWNJ, ZWSP>>

hasExpanded(prevRange, currentRange) ==
    /\ prevRange.start = currentRange.start
    /\ currentRange.end > prevRange.end
    /\ StartsWith(currentRange.text, prevRange.text)

\* The nested loops over the current and the previous ranges: the corrected
\* text of the first expanded mention, or None
RECURSIVE expansionLoop(_, _, _, _, _)
expansionLoop(text, mentionRanges, previousRanges, i, j) ==
    IF i > Len(mentionRanges) THEN None
    ELSE IF j > Len(previousRanges)
    THEN expansionLoop(text, mentionRanges, previousRanges, i + 1, 1)
    ELSE LET currentRange == mentionRanges[i]
             prevRange == previousRanges[j]
             expandedPart == SubstringFrom(currentRange.text, Len(prevRange.text))
         IN  IF hasExpanded(prevRange, currentRange)
             THEN Some(Substring(text, 0, prevRange.end) \o separators \o expandedPart
                       \o SubstringFrom(text, currentRange.end))
             ELSE expansionLoop(text, mentionRanges, previousRanges, i, j + 1)

\* mentionText.match(/^([a-z0-9.\-_]+)/i): the length of the match, 0 for null
usernameMatchLength(mentionText) == RunEnd(mentionText, 0)

isSuspicious(mentionText) ==
    \/ \E k \in 1..Len(mentionText) : IsWhitespace(mentionText[k])
    \/ \E k \in 1..Len(mentionText) : ~InMentionClass(mentionText[k])
    \/ Len(mentionText) > MaxMentionLength

\* The fallback loop: the corrected text of the first suspicious mention
\* that has a shorter valid prefix, or None
RECURSIVE fallbackLoop(_, _, _)
fallbackLoop(text, mentionRanges, i) ==
    IF i > Len(mentionRanges) THEN None
    ELSE LET range == mentionRanges[i]
             mentionText == SubstringFrom(range.text, 1)
             n == usernameMatchLength(mentionText)
         IN  IF isSuspicious(mentionText) /\ n > 0 /\ n < Len(mentionText)
             THEN Some(Substring(text, 0, range.start) \o <<"@">> \o Substring(mentionText, 0, n)
                       \o <<ZWSP>> \o SubstringFrom(mentionText, n)
                       \o SubstringFrom(text, range.end))
             ELSE fallbackLoop(text, mentionRanges, i + 1)

\* previousText is <<>> when it is absent (or empty)
detectAndFixMentionExpansion(text, previousText) ==
    LET mentionRanges == getMentionRanges(text)
        expanded == IF ~notText(previousText)
                    THEN expansionLoop(text, mentionRanges, getMentionRanges(previousText), 1, 1)
                    ELSE None
        fallback == fallbackLoop(text, mentionRanges, 1)
    IN  IF notText(text) THEN text
        ELSE IF expanded # None THEN expanded[1]
        ELSE IF fallback # None THEN fallback[1]
        ELSE text

\* insertSpaceAndChar that puts in the character alone
insertSpaceAndChar_noSpace(text, cursorPosition, newChar) ==
    Substring(text, 0, cursorPosition) \o newChar \o SubstringFrom(text, cursorPosition)

\* text.substring(0, cursorPosition) + ' ' + newChar + text.substring(cursorPosition)
insertSpaceAndChar(text, cursorPosition, newChar) ==
    Substring(text, 0, cursorPosition) \o <<" ">> \o newChar
        \o SubstringFrom(text, cursorPosition)

RECURSIVE preventLoop(_, _, _, _, _)
preventLoop(text, ranges, i, cursorPosition, newChar) ==
    IF i > Len(ranges) THEN [text |-> text, cursorPosition |-> cursorPosition]
    ELSE IF cursorPosition = ranges[i].end
    THEN [text |-> insertSpaceAndChar(text, cursorPosition, newChar),
          cursorPosition |-> cursorPosition + 2]
    ELSE preventLoop(text, ranges, i + 1, cursorPosition, newChar)

\* newChar is a string: <<>> when it is empty
preventMentionExpansion(text, cursorPosition, newChar) ==
    IF notText(text) \/ cursorPosition < 0 \/ newChar = <<>>
    THEN [text |-> text, cursorPosition |-> cursorPosition]
    ELSE preventLoop(text, getMentionRanges(text), 1, cursorPosition, newChar)

----------------------------------------------------------------------------
(* Calls of getMentionRanges on arbitrary buffers *)

InitScan ==
    /\ value \in SeqsUpTo(Chars, MaxScanLen)
    /\ cursor = 0
    /\ transparent = FALSE
    /\ timers = <<>>
    /\ regexLastIndex = 0
    /\ last = NoKey(value, cursor)
    /\ out = NoCall

CallGetMentionRanges ==
    /\ out = NoCall
    /\ out' = [fn |-> "getMentionRanges", text |-> value,
               ranges |-> getMentionRanges(value)]
    /\ regexLastIndex' = lastIndexAfterScan(value)
    /\ UNCHANGED <<value, cursor, transparent, timers, last>>

NextScan == CallGetMentionRanges

SpecScan == InitScan /\ [][NextScan]_vars

----------------------------------------------------------------------------
(* Calls of detectAndFixMentionExpansion after an insertion into the text *)

InitFix ==
    /\ value \in SeqsUpTo(FixChars, MaxPrevLen)
    /\ cursor = 0
    /\ transparent = FALSE
    /\ timers = <<>>
    /\ regexLastIndex = 0
    /\ last = NoKey(value, cursor)
    /\ out = NoCall

\* The text after typing or pasting ins at offset pos is checked against
\* the text before
CallDetectAndFix ==
    /\ out = NoCall
    /\ \E pos \in 0..Len(value), ins \in SeqsUpTo(FixChars, MaxInsert) \ {<<>>} :
          LET text == Substring(value, 0, pos) \o ins \o SubstringFrom(value, pos)
          IN  out' = [fn |-> "detectAndFixMentionExpansion", text |-> text,
                      previousText |-> value,
                      result |-> detectAndFixMentionExpansion(text, value)]
    /\ UNCHANGED <<value, cursor, transparent, timers, last, regexLastIndex>>

\* The text is checked without a previous text
CallDetectAndFixAlone ==
    /\ out = NoCall
    /\ out' = [fn |-> "detectAndFixMentionExpansion", text |-> value,
               previousText |-> <<>>,
               result |-> detectAndFixMentionExpansion(value, <<>>)]
    /\ UNCHANGED <<value, cursor, transparent, timers, last, regexLastIndex>>

NextFix == CallDetectAndFix \/ CallDetectAndFixAlone

SpecFix == InitFix /\ [][NextFix]_vars

----------------------------------------------------------------------------
(* Calls of preventMentionExpansion for a character about to be typed *)

InitPrevent ==
    /\ value \in SeqsUpTo(Chars, MaxPreventLen)
    /\ cursor \in 0..Len(value)
    /\ transparent = FALSE
    /\ timers = <<>>
    /\ regexLastIndex = 0
    /\ last = NoKey(value, cursor)
    /\ out = NoCall

CallPreventMentionExpansion ==
    /\ out = NoCall
    /\ \E newChar \in {<<c>> : c \in Chars} \cup {<<>>} :
          out' = [fn |-> "preventMentionExpansion", text |-> value,
                  cursorPosition |-> cursor, newChar |-> newChar,
                  result |-> preventMentionExpansion(value, cursor, newChar)]
    /\ UNCHANGED <<value, cursor, transparent, timers, last, regexLastIndex>>

NextPrevent == CallPreventMentionExpansion

SpecPrevent == InitPrevent /\ [][NextPrevent]_vars

----------------------------------------------------------------------------
(* Calls of the core functions on any input: the text may be no string   *)
(* and the cursor may lie outside the text                                *)

InitCalls ==
    /\ value \in SeqsUpTo(KeyChars, MaxCallLen) \cup NonStrings
    /\ cursor \in -1..(Len(value) + 1)
    /\ transparent = FALSE
    /\ timers = <<>>
    /\ regexLastIndex = 0
    /\ last = NoKey(value, cursor)
    /\ out = NoCall

CallWillInvadeMentionArea ==
    /\ out = NoCall
    /\ \E key \in {"ArrowLeft", "ArrowRight", "Home", "End"}, ctrlKey \in BOOLEAN :
          out' = [fn |-> "willInvadeMentionArea", text |-> value,
                  cursorPosition |-> cursor, key |-> key, ctrlKey |-> ctrlKey,
                  result |-> willInvadeMentionArea(value, cursor, key, ctrlKey, FALSE)]
    /\ UNCHANGED <<value, cursor, transparent, timers, last, regexLastIndex>>

CallHandleMentionDeletion ==
    /\ out = NoCall
    /\ \E key \in {"Backspace", "Delete"} :
          out' = [fn |-> "handleMentionDeletion", text |-> value,
                  cursorPosition |-> cursor, key |-> key,
                  result |-> handleMentionDeletion(value, cursor, key)]
    /\ UNCHANGED <<value, cursor, transparent, timers, last, regexLastIndex>>

NextCalls ==
    \/ CallGetMentionRanges
    \/ CallWillInvadeMentionArea
    \/ CallHandleMentionDeletion
    \/ CallPreventMentionExpansion
    \/ CallDetectAndFixAlone

SpecCalls == InitCalls /\ [][NextCalls]_vars

----------------------------------------------------------------------------
(* Scan after scan, on any buffers, all through the one MENTION_REGEX *)

InitRegex ==
    /\ value = <<>>
    /\ cursor = 0
    /\ transparent = FALSE
    /\ timers = <<>>
    /\ regexLastIndex = 0
    /\ last = NoKey(value, cursor)
    /\ out = NoCall

\* One more call; `earlier` is the number of ranges the call before found
\* (-1 when there was none), startIndex the lastIndex the loop starts with
ScanBuffer ==
    /\ \E text \in SeqsUpTo(KeyChars, MaxRegexLen) \cup NonStrings :
          /\ out' = [fn |-> "getMentionRanges", text |-> text,
                     earlier |-> IF out = NoCall THEN -1 ELSE Len(out.ranges),
                     startIndex |-> resetLastIndex,
                     ranges |-> getMentionRanges(text)]
          /\ regexLastIndex' = lastIndexAfterScan(text)
    /\ UNCHANGED <<value, cursor, transparent, timers, last>>

NextRegex == ScanBuffer

SpecRegex == InitRegex /\ [][NextRegex]_vars

----------------------------------------------------------------------------
(* Mouse clicks among the key events *)

\* A re-check that writes the text it captured back to the textbox
recheckOutcome_restoresText(captured, text, currentPosition) ==
    LET positionInfo == getCursorPositionInfo(captured, currentPosition)
    IN  [value |-> captured,
         cursor |-> IF positionInfo.inArea /\ positionInfo.range # None
                    THEN Min(getSafeCursorPosition(captured, currentPosition), Len(captured))
                    ELSE currentPosition]

\* The callback handleMentionMouseUp defers: it reads the cursor of the
\* textbox as it is now, judges it against the captured text, and calls
\* setSelectionRange (which clamps to the current text) when it is inside
\* a mention of that text
recheckOutcome(captured, text, currentPosition) ==
    LET positionInfo == getCursorPositionInfo(captured, currentPosition)
    IN  [value |-> text,
         cursor |-> IF positionInfo.inArea /\ positionInfo.range # None
                    THEN Min(getSafeCursorPosition(captured, currentPosition), Len(text))
                    ELSE currentPosition]

InitMouse ==
    /\ value \in SeqsUpTo(MouseChars, MaxMouseLen)
    /\ cursor \in 0..Len(value)
    /\ transparent \in BOOLEAN
    /\ timers = <<>>
    /\ regexLastIndex = 0
    /\ last = NoKey(value, cursor)
    /\ out = NoCall

\* A click puts the caret somewhere in the text, then handleMentionMouseUp
\* runs with the current text
MouseUp ==
    \E clicked \in 0..Len(value) :
        /\ value # <<>> => Len(timers) < MaxTimers
        /\ cursor' = clicked
        /\ timers' = IF value = <<>> THEN timers
                     ELSE Append(timers, [kind |-> "recheck", value |-> value])
        /\ last' = [key |-> "mouseup", mod |-> FALSE, value |-> value, pos |-> cursor,
                    prevented |-> FALSE]
        /\ UNCHANGED <<value, transparent, out, regexLastIndex>>

RunRecheck ==
    /\ timers # <<>>
    /\ Head(timers).kind = "recheck"
    /\ LET o == recheckOutcome(Head(timers).value, value, cursor)
       IN  /\ value' = o.value
           /\ cursor' = o.cursor
    /\ timers' = Tail(timers)
    /\ last' = [key |-> "recheck", mod |-> FALSE, value |-> value, pos |-> cursor,
                prevented |-> FALSE, captured |-> Head(timers).value]
    /\ UNCHANGED <<transparent, out, regexLastIndex>>

NextMouse == KeyDown \/ RunCaretTimeout \/ MouseUp \/ RunRecheck

SpecMouse == InitMouse /\ [][NextMouse]_vars

----------------------------------------------------------------------------
(* detectAndFixMentionExpansion without a previous text, also on mentions *)
(* about as long as the length it takes for suspicious                    *)

\* '@' and n word characters between two short texts
LongTexts ==
    {pre \o <<"@">> \o [k \in 1..n |-> "a"] \o post :
        pre \in SeqsUpTo(FixChars, MaxPadLen),
        post \in SeqsUpTo(FixChars, MaxPadLen),
        n \in (MaxMentionLength - MaxPadLen)..(MaxMentionLength + MaxPadLen + 1)}

InitFixAlone ==
    /\ value \in SeqsUpTo(FixChars, MaxPrevLen) \cup LongTexts
    /\ cursor = 0
    /\ transparent = FALSE
    /\ timers = <<>>
    /\ regexLastIndex = 0
    /\ last = NoKey(value, cursor)
    /\ out = NoCall

NextFixAlone == CallDetectAndFixAlone

SpecFixAlone == InitFixAlone /\ [][NextFixAlone]_vars

----------------------------------------------------------------------------
(* The mention overlay.  Buffers are single lines.                        *)

\* createTextPartFromContent: a text part, zero-width characters removed
createTextPartFromContent(content) ==
    [type |-> "text", content |-> cleanText(content)]

\* createTextPart: the whole text as the one part
createTextPart(text) == <<[type |-> "text", content |-> cleanText(text)]>>

\* A mention part whose content is the range's own text without the '@'
mentionPartFromRangeText(text, range) ==
    [type |-> "mention", content |-> SubstringFrom(range.text, 1), range |-> range]

\* The mention part: its content is cut out of the buffer
mentionPart(text, range) ==
    LET mentionText == Substring(text, range.start, range.end)
    IN  [type |-> "mention", content |-> SubstringFrom(mentionText, 1), range |-> range]

RECURSIVE parseLoop(_, _, _, _)
parseLoop(text, mentionRanges, i, lastEnd) ==
    IF i > Len(mentionRanges)
    THEN IF lastEnd < Len(text)
         THEN <<createTextPartFromContent(SubstringFrom(text, lastEnd))>>
         ELSE <<>>
    ELSE LET range == mentionRanges[i]
         IN  (IF range.start > lastEnd
              THEN <<createTextPartFromContent(Substring(text, lastEnd, range.start))>>
              ELSE <<>>)
             \o <<mentionPart(text, range)>>
             \o parseLoop(text, mentionRanges, i + 1, range.end)

\* parseMentionText of the overlay that takes a mention's content from the
\* buffer
parseMentionText(text) == parseLoop(text, getMentionRanges(text), 1, 0)

RECURSIVE guardedLoop(_, _, _, _)
guardedLoop(text, mentionRanges, i, lastIndex) ==
    IF i > Len(mentionRanges)
    THEN IF lastIndex < Len(text)
         THEN <<createTextPartFromContent(SubstringFrom(text, lastIndex))>>
         ELSE <<>>
    ELSE LET range == mentionRanges[i]
         IN  (IF range.start > lastIndex
              THEN <<createTextPartFromContent(Substring(text, lastIndex, range.start))>>
              ELSE <<>>)
             \o <<mentionPartFromRangeText(text, range)>>
             \o guardedLoop(text, mentionRanges, i + 1, range.end)

\* parseMentionText of the overlay that guards its argument and takes a
\* mention's content from range.text
parseMentionTextGuarded(text) ==
    IF notText(text) THEN <<>>
    ELSE IF getMentionRanges(text) = <<>> THEN createTextPart(text)
    ELSE guardedLoop(text, getMentionRanges(text), 1, 0)

\* The length by which a part moves the running input offset
partLength(part) ==
    IF part.type = "mention" THEN part.range.end - part.range.start
    ELSE Len(part.content)

\* The loop of calculateCursorPosition: the input offset at every part it
\* reaches, and the offset after the last part when the cursor was in none
RECURSIVE cursorWalk(_, _, _, _)
cursorWalk(parts, cursorPosition, i, inputPosition) ==
    IF i > Len(parts) THEN <<inputPosition>>
    ELSE LET endPosition == inputPosition + partLength(parts[i])
             foundCursor ==
                 IF parts[i].type = "mention"
                 THEN inputPosition <= cursorPosition /\ cursorPosition <= endPosition
                 ELSE /\ endPosition > 0
                      /\ inputPosition <= cursorPosition
                      /\ endPosition >= cursorPosition
         IN  IF foundCursor THEN <<inputPosition>>
             ELSE <<inputPosition>> \o cursorWalk(parts, cursorPosition, i + 1, endPosition)

\* The loop of handleOverlayClick over the parts of a one-line buffer: it
\* stops at the part that reaches the end of the line
RECURSIVE clickWalk(_, _, _, _)
clickWalk(parts, lineLength, i, inputPos) ==
    IF i > Len(parts) THEN <<inputPos>>
    ELSE LET partEndPos == inputPos + partLength(parts[i])
         IN  IF inputPos < lineLength /\ partEndPos >= lineLength
             THEN <<inputPos, partEndPos>>
             ELSE <<inputPos>> \o clickWalk(parts, lineLength, i + 1, partEndPos)

InitOverlay ==
    /\ value \in SeqsUpTo(Chars, MaxOverlayLen)
    /\ cursor \in 0..Len(value)
    /\ transparent = FALSE
    /\ timers = <<>>
    /\ regexLastIndex = 0
    /\ last = NoKey(value, cursor)
    /\ out = NoCall

\* The host types one character and stores what detectAndFixMentionExpansion
\* returns for it
FixBuffer ==
    /\ out = NoCall
    /\ last.key = "none"
    /\ \E pos \in 0..Len(value), c \in Chars :
          LET text == Substring(value, 0, pos) \o <<c>> \o SubstringFrom(value, pos)
          IN  /\ value' = detectAndFixMentionExpansion(text, value)
              /\ cursor' = 0
              /\ last' = [key |-> "fix", mod |-> FALSE, value |-> value, pos |-> cursor,
                          prevented |-> FALSE]
    /\ UNCHANGED <<transparent, timers, out, regexLastIndex>>

CallParseMentionText ==
    /\ out = NoCall
    /\ out' = [fn |-> "parseMentionText", text |-> value,
               ranges |-> getMentionRanges(value),
               parts |-> parseMentionText(value)]
    /\ UNCHANGED <<value, cursor, transparent, timers, last, regexLastIndex>>

CallParseMentionTextGuarded ==
    /\ out = NoCall
    /\ out' = [fn |-> "parseMentionTextGuarded", text |-> value,
               ranges |-> getMentionRanges(value),
               parts |-> parseMentionTextGuarded(value)]
    /\ UNCHANGED <<value, cursor, transparent, timers, last, regexLastIndex>>

CallCalculateCursorPosition ==
    /\ out = NoCall
    /\ out' = [fn |-> "calculateCursorPosition", text |-> value,
               cursorPosition |-> cursor,
               parts |-> parseMentionText(value),
               offsets |-> cursorWalk(parseMentionText(value), cursor, 1, 0)]
    /\ UNCHANGED <<value, cursor, transparent, timers, last, regexLastIndex>>

CallHandleOverlayClick ==
    /\ out = NoCall
    /\ out' = [fn |-> "handleOverlayClick", text |-> value,
               parts |-> parseMentionText(value),
               offsets |-> clickWalk(parseMentionText(value), Len(value), 1, 0)]
    /\ UNCHANGED <<value, cursor, transparent, timers, last, regexLastIndex>>

NextOverlay ==
    \/ FixBuffer
    \/ CallParseMentionText
    \/ CallParseMentionTextGuarded
    \/ CallCalculateCursorPosition
    \/ CallHandleOverlayClick

SpecOverlay == InitOverlay /\ [][NextOverlay]_vars

----------------------------------------------------------------------------
(* Calls of getSafeCursorPosition, the target also behind the text *)

InitSafe ==
    /\ value \in SeqsUpTo(KeyChars, MaxSafeLen)
    /\ cursor \in 0..(Len(value) + 1)
    /\ transparent = FALSE
    /\ timers = <<>>
    /\ regexLastIndex = 0
    /\ last = NoKey(value, cursor)
    /\ out = NoCall

CallGetSafeCursorPosition ==
    /\ out = NoCall
    /\ out' = [fn |-> "getSafeCursorPosition", text |-> value,
               targetPosition |-> cursor,
               result |-> getSafeCursorPosition(value, cursor)]
    /\ UNCHANGED <<value, cursor, transparent, timers, last, regexLastIndex>>

NextSafe == CallGetSafeCursorPosition

SpecSafe == InitSafe /\ [][NextSafe]_vars

----------------------------------------------------------------------------
(* Key-event runs that start with the cursor outside every mention *)

Spans(text) == {getMentionRanges(text)[i] : i \in 1..Len(getMentionRanges(text))}

StrictlyInside(text, pos) == \E S \in Spans(text) : S.start < pos /\ pos < S.end

\* text without the characters at offsets [from, to)
Without(text, from, to) == SubSeq(text, 1, from) \o SubSeq(text, to + 1, Len(text))

PlainKey(key) == last.key = key /\ ~last.mod

InitAtomic == Init /\ ~StrictlyInside(value, cursor)

SpecAtomic == InitAtomic /\ [][Next]_vars

\* C1: started outside every mention, the cursor is never strictly inside a
\* mention of the current text, whatever keys are pressed.
C1_AtomicNavigation == ~StrictlyInside(value, cursor)

----------------------------------------------------------------------------
(* Properties of single key events (specification Spec) *)

\* C2: Backspace with the cursor at a mention's end removes exactly that
\* mention and puts the cursor at its start, whatever other mentions the
\* text has.
C2_BackspaceAtEndRemovesMention ==
    last.key = "Backspace" =>
        \A S \in Spans(last.value) :
            last.pos = S.end =>
                /\ value = Without(last.value, S.start, S.end)
                /\ cursor = S.start

C2_Witness ==
    /\ last.key = "Backspace"
    /\ Cardinality(Spans(last.value)) >= 2
    /\ \E S \in Spans(last.value) :
          /\ last.pos = S.end
          /\ value = Without(last.value, S.start, S.end)
          /\ cursor = S.start

\* C3: Delete with the cursor strictly inside a mention is intercepted,
\* leaves the text as it is and moves the cursor to the mention's end.
C3_DeleteInsideMovesToEnd ==
    last.key = "Delete" =>
        \A S \in Spans(last.value) :
            (S.start < last.pos /\ last.pos < S.end) =>
                /\ last.prevented
                /\ value = last.value
                /\ cursor = S.end

C3_Witness ==
    /\ last.key = "Delete"
    /\ last.prevented
    /\ \E S \in Spans(last.value) :
          S.start < last.pos /\ last.pos < S.end /\ cursor = S.end

\* C4: a plain ArrowRight whose next position is a mention's start or lies
\* inside the mention is intercepted and lands at the mention's end.
C4_ArrowRightSkipsMention ==
    PlainKey("ArrowRight") =>
        \A S \in Spans(last.value) :
            (last.pos < S.end /\ S.start <= last.pos + 1 /\ last.pos + 1 < S.end) =>
                /\ last.prevented
                /\ cursor = S.end

\* C5 as stated: a plain ArrowLeft from (S.start, S.end] lands at S.start,
\* and at S.start it is never intercepted, also next to another mention.
C5_ArrowLeftAsStated ==
    PlainKey("ArrowLeft") =>
        \A S \in Spans(last.value) :
            /\ (S.start < last.pos /\ last.pos <= S.end) =>
                    (value = last.value /\ cursor = S.start)
            /\ last.pos = S.start =>
                    /\ ~last.prevented
                    /\ value = last.value
                    /\ cursor = Max(0, last.pos - 1)

\* C5: a plain ArrowLeft from (S.start, S.end] leaves the text alone and
\* lands at S.start.  At S.start it is left to the host (one step left)
\* unless another mention ends there, in which case it is intercepted and
\* lands at that mention's start.
C5_ArrowLeft ==
    PlainKey("ArrowLeft") =>
        \A S \in Spans(last.value) :
            /\ (S.start < last.pos /\ last.pos <= S.end) =>
                    (value = last.value /\ cursor = S.start)
            /\ (last.pos = S.start /\ \A R \in Spans(last.value) : R.end # S.start) =>
                    /\ ~last.prevented
                    /\ value = last.value
                    /\ cursor = Max(0, last.pos - 1)
            /\ \A R \in Spans(last.value) :
                    (last.pos = S.start /\ R.end = S.start) =>
                        /\ last.prevented
                        /\ value = last.value
                        /\ cursor = R.start

C5_Witness ==
    /\ PlainKey("ArrowLeft")
    /\ last.prevented
    /\ \E S, R \in Spans(last.value) :
          last.pos = S.start /\ R.end = S.start /\ cursor = R.start

\* C6: Home (and ArrowLeft with ctrl or meta) is intercepted exactly when a
\* mention lies between position 0 and the cursor, then lands at such a
\* mention's end, and never moves the cursor to the right.
C6_HomeSkipsMentionsBeforeCursor ==
    (last.key = "Home" \/ (last.key = "ArrowLeft" /\ last.mod)) =>
        LET before == {S \in Spans(last.value) : S.end <= last.pos}
        IN  /\ before # {} => (last.prevented /\ \E S \in before : cursor = S.end)
            /\ before = {} => ~last.prevented
            /\ cursor <= last.pos

----------------------------------------------------------------------------
(* Properties of getMentionRanges (specification SpecScan) *)

Scanned == out.fn = "getMentionRanges"

\* The offset in the marker-stripped text that offset pos of text maps to
CleanOffset(text, pos) == Len(cleanText(SubSeq(text, 1, pos)))

\* C7: the ranges are strictly increasing in start, do not overlap, and
\* each satisfies 0 <= start < end <= length of the text.
C7_RangesOrderedAndDisjoint ==
    Scanned =>
        LET r == out.ranges
        IN  /\ \A i \in 1..Len(r) :
                  0 <= r[i].start /\ r[i].start < r[i].end /\ r[i].end <= Len(out.text)
            /\ \A i \in 1..(Len(r) - 1) :
                  r[i].start < r[i + 1].start /\ r[i].end <= r[i + 1].start

C7_Witness ==
    /\ Scanned
    /\ Len(out.ranges) >= 2
    /\ \E k \in 1..Len(out.text) : IsZeroWidth(out.text[k])
    /\ out.ranges[1].end <= out.ranges[2].start

GrammarText(t) ==
    /\ Len(t) >= 2
    /\ t[1] = "@"
    /\ \A k \in 2..Len(t) : InMentionClass(t[k])

\* C8 as stated: every range's text is '@' and one or more class
\* characters, and in the stripped text the character after the range is
\* outside the class or the range ends the text.
C8_GrammarMaximalAsStated ==
    Scanned =>
        LET clean == cleanText(out.text)
        IN  \A i \in 1..Len(out.ranges) :
                LET e == CleanOffset(out.text, out.ranges[i].end)
                IN  /\ GrammarText(out.ranges[i].text)
                    /\ e = Len(clean) \/ ~InMentionClass(clean[e + 1])

\* C8: every range's text is '@' and one or more class characters and ends
\* with a character of [a-zA-Z0-9_]; the match is maximal up to trailing
\* '.' and '-': in the stripped text, what lies between the range's end and
\* the end of the run of class characters is only '.' or '-'.
C8_GrammarMaximalUpToPunctuation ==
    Scanned =>
        LET clean == cleanText(out.text)
        IN  \A i \in 1..Len(out.ranges) :
                LET t == out.ranges[i].text
                    e == CleanOffset(out.text, out.ranges[i].end)
                IN  /\ GrammarText(t)
                    /\ IsWordChar(t[Len(t)])
                    /\ \A k \in (e + 1)..RunEnd(clean, e) : ~IsWordChar(clean[k])

C8_Witness ==
    /\ Scanned
    /\ \E i \in 1..Len(out.ranges) :
          LET clean == cleanText(out.text)
              e == CleanOffset(out.text, out.ranges[i].end)
          IN  /\ e < Len(clean)
              /\ clean[e + 1] = "."
              /\ IsWordChar(out.ranges[i].text[Len(out.ranges[i].text)])

\* C9: every range is in the coordinates of the original text: the
\* character at its start is the '@', its end is just past the last
\* matched character, and the characters in between, stripped of
\* zero-width markers, are the range's text.
C9_OriginalCoordinates ==
    Scanned =>
        \A i \in 1..Len(out.ranges) :
            LET S == out.ranges[i]
            IN  /\ S.start < Len(out.text) /\ out.text[S.start + 1] = "@"
                /\ S.end >= 1 /\ ~IsZeroWidth(out.text[S.end])
                /\ cleanText(SubSeq(out.text, S.start + 1, S.end)) = S.text

----------------------------------------------------------------------------
(* Properties of detectAndFixMentionExpansion (specification SpecFix) *)

Fixed == out.fn = "detectAndFixMentionExpansion"

\* C10: when a mention of the previous text has grown at the same start in
\* the current text, scanning the returned text gives a range whose text
\* is the previous mention's text.
C10_FixRetruncatesMention ==
    Fixed =>
        \A P \in Spans(out.previousText), C \in Spans(out.text) :
            (P.start = C.start /\ C.end > P.end /\ StartsWith(C.text, P.text)
                /\ Len(C.text) > Len(P.text)) =>
                \E S \in Spans(out.result) : S.text = P.text

\* The mentions of the previous text that have grown in the current text:
\* same start, longer span, text beginning with the previous text
GrownPairs(previousText, text) ==
    {pc \in Spans(previousText) \X Spans(text) :
        /\ pc[1].start = pc[2].start
        /\ pc[2].end > pc[1].end
        /\ StartsWith(pc[2].text, pc[1].text)}

\* text with ins put in at offset at
Splice(text, at, ins) == SubSeq(text, 1, at) \o ins \o SubSeq(text, at + 1, Len(text))

\* C11: when a mention has grown, the result is the current text with
\* exactly U+200B U+200C U+200B spliced in at the previous mention's end,
\* every other character unchanged.
C11_FixSplicesSeparators ==
    (Fixed /\ GrownPairs(out.previousText, out.text) # {}) =>
        \E pc \in GrownPairs(out.previousText, out.text) :
            out.result = Splice(out.text, pc[1].end, <<ZWSP, ZWNJ, ZWSP>>)

----------------------------------------------------------------------------
(* Properties of preventMentionExpansion (specification SpecPrevent) *)

PreventCalled == out.fn = "preventMentionExpansion"

\* C12: with the cursor at a mention's end and a character ch coming in, the
\* result is the text with ' ' and ch put in at the cursor and the cursor
\* advanced by two, and a new scan still reports that mention unchanged;
\* with the cursor at no mention's end, text and cursor come back as given.
C12_PreventInsertsSpace ==
    (PreventCalled /\ Len(out.newChar) = 1) =>
        LET ending == {S \in Spans(out.text) : out.cursorPosition = S.end}
        IN  /\ \A S \in ending :
                  /\ out.result.text = Splice(out.text, S.end, <<" ">> \o out.newChar)
                  /\ out.result.cursorPosition = S.end + 2
                  /\ S \in Spans(out.result.text)
            /\ ending = {} =>
                  /\ out.result.text = out.text
                  /\ out.result.cursorPosition = out.cursorPosition

C12_Witness ==
    /\ PreventCalled
    /\ Len(out.newChar) = 1
    /\ InMentionClass(out.newChar[1])
    /\ \E k \in 1..Len(out.text) : IsZeroWidth(out.text[k])
    /\ \E S \in Spans(out.text) :
          /\ out.cursorPosition = S.end
          /\ out.result.cursorPosition = S.end + 2
          /\ S \in Spans(out.result.text)

----------------------------------------------------------------------------
(* Properties of Backspace and Delete around a mention (specification Spec) *)

\* The character at offset i of text is a space
SpaceAt(text, i) == i < Len(text) /\ text[i + 1] = " "

\* C13: Backspace one position past a mention's end, the character at the
\* end being a space: if anything but whitespace follows the space, the key
\* is suppressed (default prevented, text and cursor unchanged); otherwise
\* exactly that space is removed and the cursor lands at the mention's end.
C13_BackspaceAfterTrailingSpace ==
    last.key = "Backspace" =>
        \A S \in Spans(last.value) :
            (last.pos = S.end + 1 /\ SpaceAt(last.value, S.end)) =>
                LET after == SubSeq(last.value, S.end + 2, Len(last.value))
                IN  IF \E k \in 1..Len(after) : ~IsWhitespace(after[k])
                    THEN last.prevented /\ value = last.value /\ cursor = last.pos
                    ELSE /\ value = Without(last.value, S.end, S.end + 1)
                         /\ cursor = S.end

C13_Witness ==
    /\ last.key = "Backspace"
    /\ last.prevented
    /\ value = last.value
    /\ cursor = last.pos
    /\ \E S \in Spans(last.value) :
          /\ last.pos = S.end + 1
          /\ SpaceAt(last.value, S.end)
          /\ Len(last.value) > S.end + 1

\* C14 as stated: Backspace at a mention's start removes that mention and
\* leaves the cursor there, whatever precedes the mention.
C14_BackspaceAtStartAsStated ==
    last.key = "Backspace" =>
        \A S \in Spans(last.value) :
            last.pos = S.start =>
                /\ value = Without(last.value, S.start, S.end)
                /\ cursor = S.start

\* What precedes S gets the Backspace instead of S: a mention that ends at
\* S.start, or a mention and one space that end at S.start
PrecededByMention(text, S) ==
    \E R \in Spans(text) :
        \/ R.end = S.start
        \/ R.end + 1 = S.start /\ SpaceAt(text, R.end)

\* C14: Backspace at a mention's start removes that mention and leaves the
\* cursor there, unless another mention, or another mention and one space,
\* ends at that start.
C14_BackspaceAtStart ==
    last.key = "Backspace" =>
        \A S \in Spans(last.value) :
            (last.pos = S.start /\ ~PrecededByMention(last.value, S)) =>
                /\ value = Without(last.value, S.start, S.end)
                /\ cursor = S.start

C14_Witness ==
    /\ last.key = "Backspace"
    /\ \E S \in Spans(last.value) :
          /\ last.pos = S.start
          /\ S.start > 0
          /\ ~PrecededByMention(last.value, S)
          /\ value = Without(last.value, S.start, S.end)
          /\ cursor = S.start

\* C15: Delete at a mention's start removes exactly that mention and the
\* cursor stays at the start.
C15_DeleteAtStartRemovesMention ==
    last.key = "Delete" =>
        \A S \in Spans(last.value) :
            last.pos = S.start =>
                /\ value = Without(last.value, S.start, S.end)
                /\ cursor = S.start

C15_Witness ==
    /\ last.key = "Delete"
    /\ Cardinality(Spans(last.value)) >= 2
    /\ \E S \in Spans(last.value) :
          /\ last.pos = S.start
          /\ value = Without(last.value, S.start, S.end)
          /\ cursor = S.start

\* C16: Backspace strictly inside a mention is a pure cursor move: it is
\* intercepted, the text is unchanged and the cursor lands at the start.
C16_BackspaceInsideMovesToStart ==
    last.key = "Backspace" =>
        \A S \in Spans(last.value) :
            (S.start < last.pos /\ last.pos < S.end) =>
                /\ last.prevented
                /\ value = last.value
                /\ cursor = S.start

C16_Witness ==
    /\ last.key = "Backspace"
    /\ last.prevented
    /\ value = last.value
    /\ \E S \in Spans(last.value) :
          S.start < last.pos /\ last.pos < S.end /\ cursor = S.start

----------------------------------------------------------------------------
(* Degraded input (specification SpecCalls) *)

\* The text is no usable string, or the cursor is negative or past the end
Degraded(text, pos) == notText(text) \/ pos < 0 \/ pos > Len(text)

C17_ScanSafe ==
    (out.fn = "getMentionRanges" /\ notText(out.text)) => out.ranges = <<>>

C17_InvadeSafe ==
    (out.fn = "willInvadeMentionArea" /\ Degraded(out.text, out.cursorPosition)) =>
        ~out.result.willInvade

C17_DeletionSafe ==
    (out.fn = "handleMentionDeletion" /\ Degraded(out.text, out.cursorPosition)) =>
        /\ ~out.result.shouldDelete
        /\ out.result.newText = None
        /\ out.result.newPosition = None

C17_PreventSafe ==
    (out.fn = "preventMentionExpansion" /\ Degraded(out.text, out.cursorPosition)) =>
        /\ out.result.text = out.text
        /\ out.result.cursorPosition = out.cursorPosition

C17_FixSafe ==
    (out.fn = "detectAndFixMentionExpansion" /\ notText(out.text)) =>
        out.result = out.text

\* C17: degraded input yields the safe default: for a text that is null,
\* undefined, empty or no string, or a cursor that is negative or out of
\* range, getMentionRanges returns no range, willInvadeMentionArea does not
\* invade, handleMentionDeletion deletes nothing and gives no text and no
\* cursor, and preventMentionExpansion and detectAndFixMentionExpansion
\* return what they were given.
C17_DegradedInputSafeDefault ==
    /\ C17_ScanSafe
    /\ C17_InvadeSafe
    /\ C17_DeletionSafe
    /\ C17_PreventSafe
    /\ C17_FixSafe

----------------------------------------------------------------------------
(* The shared pattern object (specification SpecRegex) *)

----------------------------------------------------------------------------
(* The deferred re-check of a mouse click (specification SpecMouse) *)

\* C19: the cursor re-check that handleMentionMouseUp defers never changes
\* the text of the textbox, whenever it runs, also when keys were handled
\* and the text was edited since the click: it only sets the cursor.
C19_RecheckKeepsText ==
    last.key = "recheck" => value = last.value

\* The re-check ran after an edit (the text it captured is no longer the
\* text of the textbox) and moved the cursor
C19_Witness ==
    /\ last.key = "recheck"
    /\ last.captured # last.value
    /\ cursor # last.pos

----------------------------------------------------------------------------
(* The check without a previous text (specification SpecFixAlone) *)

\* The spans of text whose matched text, the '@' left out, is suspicious
SuspiciousSpans(text) ==
    {i \in 1..Len(getMentionRanges(text)) :
        isSuspicious(SubstringFrom(getMentionRanges(text)[i].text, 1))}

\* text with one U+200B put in at offset p
WithMarkerAt(text, p) ==
    Substring(text, 0, p) \o <<ZWSP>> \o SubstringFrom(text, p)

\* C20: when detectAndFixMentionExpansion is called without a previous text
\* and the text has a span whose matched text is suspicious (it has
\* whitespace, a character outside the mention grammar, or more than 50
\* characters), the result is the text with one U+200B put into that span,
\* after a valid prefix of the mention: somewhere after its '@' and no
\* later than its end.
C20_FallbackSplitsSuspicious ==
    (/\ out.fn = "detectAndFixMentionExpansion"
     /\ out.previousText = <<>>
     /\ SuspiciousSpans(out.text) # {}) =>
        \E i \in SuspiciousSpans(out.text) :
            LET range == getMentionRanges(out.text)[i]
            IN  \E p \in (range.start + 1)..range.end :
                    out.result = WithMarkerAt(out.text, p)

----------------------------------------------------------------------------
(* The overlay (specification SpecOverlay) *)

Parsed == out.fn \in {"parseMentionText", "parseMentionTextGuarded"}

HasZeroWidth(s) == \E k \in 1..Len(s) : IsZeroWidth(s[k])

\* C21: zero-width markers are stripped before display: for every buffer,
\* also one that detectAndFixMentionExpansion returned, no part that the
\* overlay's parseMentionText produces, text part or mention part, has
\* U+200B or U+200C in its content.
C21_PartsHaveNoMarkers ==
    Parsed => \A k \in 1..Len(out.parts) : ~HasZeroWidth(out.parts[k].content)

\* The non-empty gaps of text around its spans: gap 0 lies before the first
\* span, gap i after span i
NonEmptyGaps(text, ranges) ==
    {i \in 0..Len(ranges) :
        (IF i = 0 THEN 0 ELSE ranges[i].end)
            < (IF i = Len(ranges) THEN Len(text) ELSE ranges[i + 1].start)}

\* Where span k sits among the parts when every non-empty gap has one part
IndexOfSpan(text, ranges, k) ==
    k + Cardinality({i \in NonEmptyGaps(text, ranges) : i < k})

\* C22: for every buffer, parseMentionText yields from left to right one
\* mention part per span of getMentionRanges, with the span as its range and
\* the span's text without the leading '@' as its content, one text part
\* for each non-empty gap before, between and after the spans, and nothing
\* else.
C22_PartsFollowSpans ==
    Parsed =>
        /\ Len(out.parts) = Len(out.ranges)
                            + Cardinality(NonEmptyGaps(out.text, out.ranges))
        /\ \A k \in 1..Len(out.ranges) :
              LET at == IndexOfSpan(out.text, out.ranges, k)
              IN  /\ at <= Len(out.parts)
                  /\ out.parts[at].type = "mention"
                  /\ out.parts[at].range = out.ranges[k]
                  /\ out.parts[at].content = SubstringFrom(out.ranges[k].text, 1)
        /\ Cardinality({k \in 1..Len(out.parts) : out.parts[k].type = "text"})
              = Cardinality(NonEmptyGaps(out.text, out.ranges))

Walked == out.fn \in {"calculateCursorPosition", "handleOverlayClick"}

\* C30: the running input offset of calculateCursorPosition and of
\* handleOverlayClick is in the coordinates of the buffer: at every mention
\* part the loop reaches, the offset is that part's range.start, and after
\* the last part it is the length of the buffer, zero-width markers or not.
C30_OffsetsInBufferCoordinates ==
    Walked =>
        /\ \A k \in 1..Len(out.parts) :
              (k <= Len(out.offsets) /\ out.parts[k].type = "mention") =>
                  out.offsets[k] = out.parts[k].range.start
        /\ Len(out.offsets) = Len(out.parts) + 1 =>
              out.offsets[Len(out.offsets)] = Len(out.text)

----------------------------------------------------------------------------
(* Scanning the stripped buffer (specification SpecScan) *)

\* The spans of the last scan that hold no zero-width marker
MarkerFreeSpans ==
    {S \in Spans(out.text) : ~HasZeroWidth(Substring(out.text, S.start, S.end))}

\* The number of zero-width markers of text before offset p
MarkersBefore(text, p) ==
    Cardinality({k \in 1..p : IsZeroWidth(text[k])})

\* C23 as stated: every span of a buffer that holds no zero-width marker is
\* reported with the same start, end and text when the buffer is scanned
\* with all its zero-width markers removed.
C23_RoundTripAsStated ==
    Scanned =>
        \A S \in MarkerFreeSpans :
            \E T \in Spans(cleanText(out.text)) :
                T.start = S.start /\ T.end = S.end /\ T.text = S.text

\* C23: every span of a buffer that holds no zero-width marker is reported
\* with the same text when the buffer is scanned with all its zero-width
\* markers removed, and with its start and end moved left by the number of
\* markers the buffer has before the span.
C23_RoundTripShifted ==
    Scanned =>
        \A S \in MarkerFreeSpans :
            \E T \in Spans(cleanText(out.text)) :
                /\ T.start = S.start - MarkersBefore(out.text, S.start)
                /\ T.end = S.end - MarkersBefore(out.text, S.start)
                /\ T.text = S.text

\* A scan found a marker-free span that has a marker somewhere before it
C23_Witness ==
    /\ Scanned
    /\ \E S \in MarkerFreeSpans : MarkersBefore(out.text, S.start) > 0

----------------------------------------------------------------------------
(* Keys the handler leaves alone (specification Spec) *)

\* pos is more than one position away from every span of text
FarFromSpans(text, pos) ==
    \A S \in Spans(text) : pos < S.start - 1 \/ pos > S.end + 1

\* The last event was a key that met the text and the cursor where no rule
\* applies
OutsideRules ==
    /\ last.key \in Keys
    /\ \/ Spans(last.value) = {}
       \/ /\ ~last.mod
          /\ last.key \in {"ArrowLeft", "ArrowRight", "End", "Backspace", "Delete"}
          /\ FarFromSpans(last.value, last.pos)

\* C24: a plain ArrowLeft, ArrowRight, End, Backspace or Delete with the
\* cursor more than one position away from every span, and any key on a
\* buffer without spans, is not intercepted: handleMentionKeyDown does not
\* prevent the default and changes neither text nor cursor, so text and
\* cursor after the event are what the host's own handling makes of them.
C24_NotInterceptedOutsideRules ==
    OutsideRules =>
        /\ ~last.prevented
        /\ \E o \in HostDefault(last.value, last.pos, last.key, last.mod) :
              value = o.value /\ cursor = o.cursor

\* A plain Backspace far from the one mention of the buffer took a character
C24_Witness ==
    /\ OutsideRules
    /\ PlainKey("Backspace")
    /\ Spans(last.value) # {}
    /\ Len(value) < Len(last.value)

----------------------------------------------------------------------------
(* Deletions and the growth of mentions (specification Spec) *)

\* C26: no mention grows through a deletion: after one Backspace or Delete
\* key event (the host's one-character deletion applied when the event is
\* not intercepted) no span of the new buffer has the start of a span of
\* the buffer before and a strictly longer text that begins with that
\* span's text.
C26_NoGrowthThroughDeletion ==
    last.key \in {"Backspace", "Delete"} => GrownPairs(last.value, value) = {}

----------------------------------------------------------------------------
(* The cursor after the deferred re-check (specification SpecMouse) *)

\* C27: after the re-check deferred by handleMentionMouseUp has run, the
\* cursor is not inside [S.start, S.end) of any span S of the current text
\* of the textbox, also when the text was edited between the click and the
\* callback.
C27_RecheckLeavesCursorOutside ==
    last.key = "recheck" =>
        \A S \in Spans(value) : ~(S.start <= cursor /\ cursor < S.end)

----------------------------------------------------------------------------
(* The visible text under the expansion guard (specification SpecFix) *)

\* C28: detectAndFixMentionExpansion only ever inserts zero-width markers:
\* with or without a previous text, the result without its U+200B and
\* U+200C is the current text without its U+200B and U+200C.
C28_FixKeepsVisibleText ==
    out.fn = "detectAndFixMentionExpansion" =>
        cleanText(out.result) = cleanText(out.text)

----------------------------------------------------------------------------
(* The safe position (specification SpecSafe) *)

\* C29: for every buffer and every target position >= 0 the position p that
\* getSafeCursorPosition returns lies in 0..length, getCursorPositionInfo
\* says of p that it is in no mention area, and getSafeCursorPosition maps p
\* to itself, also with two mentions side by side.
C29_SafePositionIsSafe ==
    out.fn = "getSafeCursorPosition" =>
        /\ 0 <= out.result /\ out.result <= Len(out.text)
        /\ ~getCursorPositionInfo(out.text, out.result).inArea
        /\ getSafeCursorPosition(out.text, out.result) = out.result

====
